---- MODULE Spec2Model ----
(***************************************************************************)
(* Pacific Aid Map dashboard (pacific_aid_map.py).                         *)
(*                                                                         *)
(* The script is re-executed from top to bottom on every user interaction. *)
(* One execution loads the (memoized) table, narrows it by the sidebar     *)
(* widgets and recomputes every derived table.  Each action below is one   *)
(* interaction followed by the whole re-execution.                         *)
(*                                                                         *)
(* Money is counted in half dollars, so that a value may have a fractional *)
(* part (3 is 1.50 USD) and the final astype(int) is a real truncation.    *)
(* A missing cell is NaN (text columns), NaT (dates); a float cell of a    *)
(* pivot is <<v>> or the empty tuple for NaN.                              *)
(***************************************************************************)
EXTENDS Integers, Sequences, FiniteSets, TLC

VARIABLES
    csv,                 \* rows of Pacific_Aid_Map_Database.csv.gz
    countries_geojson,   \* properties.ADMIN of the features of countries.geojson
    cache,               \* st.cache_data memo of load_data: argument -> table
    reads,               \* how many times pd.read_csv has run
    rendered,            \* the script has run at least once
    spec,                \* the values of the sidebar widgets
    filtered_data,
    grouped_year_flow,   \* grouped_data of "by year and aid type"
    pivot_year_flow,     \* pivot_data of "by year and aid type"
    grouped_sector,      \* grouped_data of "by sector"
    grouped_year_sector, \* grouped_data of "by year and sector"
    pivot_year_sector,   \* pivot_data of "by year and sector"
    grouped_donor,       \* grouped_data of "by donor"
    donor_df,            \* sum_value_df of "by donor"
    grouped_recipient,   \* grouped_data of "by recipient"
    recipient_df,        \* sum_value_df of "by recipient"
    choropleth,          \* the locations the map draws
    project_df,          \* sum_value_df of "by project"
    first_view,          \* history: filtered_data of the first run
    touched              \* history: a sidebar widget has been changed

vars == <<csv, countries_geojson, cache, reads, rendered, spec,
          filtered_data, grouped_year_flow, pivot_year_flow,
          grouped_sector, grouped_year_sector, pivot_year_sector,
          grouped_donor, donor_df, grouped_recipient, recipient_df,
          choropleth, project_df, first_view, touched>>

----------------------------------------------------------------------------
(* Bounds of the model *)

\* longest table of the filter-centred specification
MaxRows == 2
\* longest table of the aggregation-centred specification
MaxAggRows == 3
\* cap of the read counter (never reached while the memo works)
MaxReads == 3

----------------------------------------------------------------------------
(* Columns, cells *)

TYPE == "spent/committed"
DONOR == "donor"
RECIPIENT == "recipient"
SECTOR == "lowy sector"
FLOW == "flow type"
DATE == "final transaction date"
TITLE == "project title"
VALUE == "usd constant - transaction value"

\* a blank text cell as pandas reads it
NaN == ""
\* a blank date after pd.to_datetime
NaT == << >>
\* a missing float (a pivot cell no group fills)
NaNf == << >>

TransactionTypes == {"Spent", "Committed"}
SliderMin == 2008
SliderMax == 2021
\* the slider positions a run of the model tries
YearStops == {SliderMin, SliderMax}

Row(t, d, r, s, f, date, title, v) ==
    (TYPE :> t) @@ (DONOR :> d) @@ (RECIPIENT :> r) @@ (SECTOR :> s)
    @@ (FLOW :> f) @@ (DATE :> date) @@ (TITLE :> title) @@ (VALUE :> v)

----------------------------------------------------------------------------
(* load_data *)

\* pd.to_datetime of one cell <<year, month, day>>: a blank cell is NaT
ToDatetime(cell) == IF cell = << >> THEN NaT ELSE cell

Normalize(raw) ==
    [i \in DOMAIN raw |-> [raw[i] EXCEPT ![DATE] = ToDatetime(raw[i][DATE])]]

\* the argument load_data is called with (nrows = None)
NoArg == "None"

LoadDataAlwaysReads(memo, n, arg) ==
    LET d == Normalize(csv)
    IN  [cache |-> (arg :> d) @@ memo, reads |-> n + 1, data |-> d]

\* @st.cache_data: the body runs only when the argument is not in the memo
load_data(memo, n, arg) ==
    IF arg \in DOMAIN memo
    THEN [cache |-> memo, reads |-> n, data |-> memo[arg]]
    ELSE LET d == Normalize(csv)
         IN  [cache |-> (arg :> d) @@ memo, reads |-> n + 1, data |-> d]

----------------------------------------------------------------------------
(* FILTERING *)

\* series.dt.year >= y and <= y: a comparison with the NaN year of NaT is False
YearGe(date, y) == date # NaT /\ date[1] >= y
YearLe(date, y) == date # NaT /\ date[1] <= y

Unique(df, col) == {df[i][col] : i \in DOMAIN df}

FilterTypeKeepsAll(df, t) == df

FilterType(df, t) == SelectSeq(df, LAMBDA r : r[TYPE] = t)

FilterIsinExcludes(df, col, selected) ==
    IF selected # {}
    THEN SelectSeq(df, LAMBDA r : r[col] \notin selected)
    ELSE df

\* if selected: filtered_data = filtered_data[filtered_data[col].isin(selected)]
FilterIsin(df, col, selected) ==
    IF selected # {}
    THEN SelectSeq(df, LAMBDA r : r[col] \in selected)
    ELSE df

FilterYearKeepsNaT(df, yr) ==
    SelectSeq(df, LAMBDA r : r[DATE] = NaT
                             \/ (YearGe(r[DATE], yr[1]) /\ YearLe(r[DATE], yr[2])))

FilterYearOpenAbove(df, yr) ==
    SelectSeq(df, LAMBDA r : YearGe(r[DATE], yr[1]) /\ YearLe(r[DATE], yr[2] - 1))

FilterYear(df, yr) ==
    SelectSeq(df, LAMBDA r : YearGe(r[DATE], yr[1]) /\ YearLe(r[DATE], yr[2]))

FilteringNarrowsPreviousView(data, s) ==
    LET start        == IF rendered THEN filtered_data ELSE data
        by_type      == FilterType(start, s.transaction_type)
        by_donor     == FilterIsin(by_type, DONOR, s.donors)
        by_recipient == FilterIsin(by_donor, RECIPIENT, s.recipients)
        by_sector    == FilterIsin(by_recipient, SECTOR, s.sectors)
        by_aid_type  == FilterIsin(by_sector, FLOW, s.aid_types)
    IN  FilterYear(by_aid_type, s.year_range)

\* filtered_data = data, then one narrowing per widget
Filtering(data, s) ==
    LET by_type      == FilterType(data, s.transaction_type)
        by_donor     == FilterIsin(by_type, DONOR, s.donors)
        by_recipient == FilterIsin(by_donor, RECIPIENT, s.recipients)
        by_sector    == FilterIsin(by_recipient, SECTOR, s.sectors)
        by_aid_type  == FilterIsin(by_sector, FLOW, s.aid_types)
    IN  FilterYear(by_aid_type, s.year_range)

\* the widgets' values on the first run
DefaultSpec ==
    [transaction_type |-> "Spent", donors |-> {}, recipients |-> {},
     sectors |-> {}, aid_types |-> {}, year_range |-> <<SliderMin, SliderMax>>]

----------------------------------------------------------------------------
(* Aggregation *)

RECURSIVE SumValues(_)
\* Series.sum() of the value column
SumValues(df) ==
    IF df = << >> THEN 0 ELSE df[1][VALUE] + SumValues(Tail(df))

GroupByColumnFirst(df, col) ==
    LET rows == SelectSeq(df, LAMBDA r : r[col] # NaN)
    IN  [k \in Unique(rows, col) |->
            SelectSeq(rows, LAMBDA r : r[col] = k)[1][VALUE]]

\* df.groupby(df[col])[VALUE].sum(): one entry per key, rows with a missing
\* key are left out (groupby's dropna)
GroupByColumn(df, col) ==
    LET rows == SelectSeq(df, LAMBDA r : r[col] # NaN)
    IN  [k \in Unique(rows, col) |->
            SumValues(SelectSeq(rows, LAMBDA r : r[col] = k))]

GroupByYearAndLast(df, col) ==
    LET rows == SelectSeq(df, LAMBDA r : r[DATE] # NaT /\ r[col] # NaN)
        keys == {<<rows[i][DATE][1], rows[i][col]>> : i \in DOMAIN rows}
    IN  [k \in keys |->
            LET g == SelectSeq(rows, LAMBDA r : <<r[DATE][1], r[col]>> = k)
            IN  g[Len(g)][VALUE]]

\* df.groupby([df[DATE].dt.year, col])[VALUE].sum().reset_index()
GroupByYearAnd(df, col) ==
    LET rows == SelectSeq(df, LAMBDA r : r[DATE] # NaT /\ r[col] # NaN)
        keys == {<<rows[i][DATE][1], rows[i][col]>> : i \in DOMAIN rows}
    IN  [k \in keys |->
            SumValues(SelectSeq(rows, LAMBDA r : <<r[DATE][1], r[col]>> = k))]

\* grouped_data.pivot(index = year, columns = col, values = VALUE)
Pivot(grouped) ==
    LET index   == {k[1] : k \in DOMAIN grouped}
        columns == {k[2] : k \in DOMAIN grouped}
    IN  [c \in index \X columns |->
            IF c \in DOMAIN grouped THEN <<grouped[c]>> ELSE NaNf]

FillnaNothing(pivot) ==
    [c \in DOMAIN pivot |-> IF pivot[c] = NaNf THEN -1 ELSE pivot[c][1]]

\* .fillna(0)
Fillna(pivot) ==
    [c \in DOMAIN pivot |-> IF pivot[c] = NaNf THEN 0 ELSE pivot[c][1]]

ProjectKey(r) == <<r[TITLE], r[DONOR], r[RECIPIENT]>>

\* df.groupby(["project title", "donor", "recipient"]).agg(sum)
GroupByProject(df) ==
    LET rows == SelectSeq(df, LAMBDA r : r[TITLE] # NaN /\ r[DONOR] # NaN
                                         /\ r[RECIPIENT] # NaN)
        keys == {ProjectKey(rows[i]) : i \in DOMAIN rows}
    IN  [k \in keys |-> SumValues(SelectSeq(rows, LAMBDA r : ProjectKey(r) = k))]

\* every order of the keys of a series
Orders(series) ==
    {f \in [1..Cardinality(DOMAIN series) -> DOMAIN series] :
        \A a, b \in DOMAIN f : a # b => f[a] # f[b]}

SortValuesAscending(series) ==
    {f \in Orders(series) :
        \A i \in DOMAIN f : i + 1 \in DOMAIN f => series[f[i]] <= series[f[i + 1]]}

\* sort_values(by = ["Value"], ascending = False), kind = quicksort: the order
\* of equal values is not fixed, so every descending order is an outcome
SortValues(series) ==
    {f \in Orders(series) :
        \A i \in DOMAIN f : i + 1 \in DOMAIN f => series[f[i]] >= series[f[i + 1]]}

AsTypeIntRound(v) == IF v >= 0 THEN (v + 1) \div 2 ELSE -((1 - v) \div 2)

\* .astype(int) of a float counted in half dollars: truncation toward zero
AsTypeInt(v) == IF v >= 0 THEN v \div 2 ELSE -((-v) \div 2)

DonorFrame(series, order) ==
    [i \in DOMAIN order |->
        ("Donor" :> order[i]) @@ ("Value" :> AsTypeInt(series[order[i]]))]

RecipientFrame(series, order) ==
    [i \in DOMAIN order |->
        ("recipient" :> order[i]) @@ ("Value" :> AsTypeInt(series[order[i]]))]

ProjectFrame(series, order) ==
    [i \in DOMAIN order |->
        ("Title" :> order[i][1]) @@ ("Donor" :> order[i][2])
        @@ ("Recipient" :> order[i][3])
        @@ ("Value" :> AsTypeInt(series[order[i]]))]

ChoroplethDrawsAll(df, geojson) == df

\* px.choropleth(locations = "recipient", featureidkey = "properties.ADMIN"):
\* a location is drawn when a feature of the geojson carries its name
Choropleth(df, geojson) ==
    SelectSeq(df, LAMBDA r : r["recipient"] \in geojson)

----------------------------------------------------------------------------
(* One execution of the script *)

Script(s) ==
    /\ reads < MaxReads
    /\ LET loaded == load_data(cache, reads, NoArg)
           fd     == Filtering(loaded.data, s)
           gyf    == GroupByYearAnd(fd, FLOW)
           gys    == GroupByYearAnd(fd, SECTOR)
           gd     == GroupByColumn(fd, DONOR)
           gr     == GroupByColumn(fd, RECIPIENT)
           gp     == GroupByProject(fd)
       IN  /\ cache' = loaded.cache
           /\ reads' = loaded.reads
           /\ rendered' = TRUE
           /\ spec' = s
           /\ filtered_data' = fd
           /\ grouped_year_flow' = gyf
           /\ pivot_year_flow' = Fillna(Pivot(gyf))
           /\ grouped_sector' = GroupByColumn(fd, SECTOR)
           /\ grouped_year_sector' = gys
           /\ pivot_year_sector' = Fillna(Pivot(gys))
           /\ grouped_donor' = gd
           /\ \E o \in SortValues(gd) : donor_df' = DonorFrame(gd, o)
           /\ grouped_recipient' = gr
           /\ \E o \in SortValues(gr) :
                /\ recipient_df' = RecipientFrame(gr, o)
                /\ choropleth' = Choropleth(RecipientFrame(gr, o), countries_geojson)
           /\ \E o \in SortValues(gp) : project_df' = ProjectFrame(gp, o)
    /\ UNCHANGED <<csv, countries_geojson>>

\* the options of a multiselect: data[col].unique()
Options(col) == Unique(cache[NoArg], col)

FirstRun ==
    /\ ~rendered
    /\ Script(DefaultSpec)
    /\ first_view' = filtered_data'
    /\ touched' = FALSE

SetTransactionType ==
    /\ rendered
    /\ \E t \in TransactionTypes \ {spec.transaction_type} :
           Script([spec EXCEPT !.transaction_type = t])
    /\ touched' = TRUE
    /\ UNCHANGED first_view

SelectDonors ==
    /\ rendered
    /\ \E sel \in (SUBSET Options(DONOR)) \ {spec.donors} :
           Script([spec EXCEPT !.donors = sel])
    /\ touched' = TRUE
    /\ UNCHANGED first_view

SelectRecipients ==
    /\ rendered
    /\ \E sel \in (SUBSET Options(RECIPIENT)) \ {spec.recipients} :
           Script([spec EXCEPT !.recipients = sel])
    /\ touched' = TRUE
    /\ UNCHANGED first_view

SelectSectors ==
    /\ rendered
    /\ \E sel \in (SUBSET Options(SECTOR)) \ {spec.sectors} :
           Script([spec EXCEPT !.sectors = sel])
    /\ touched' = TRUE
    /\ UNCHANGED first_view

SelectAidTypes ==
    /\ rendered
    /\ \E sel \in (SUBSET Options(FLOW)) \ {spec.aid_types} :
           Script([spec EXCEPT !.aid_types = sel])
    /\ touched' = TRUE
    /\ UNCHANGED first_view

SetYearRange ==
    /\ rendered
    /\ \E lo \in YearStops, hi \in YearStops :
           /\ lo <= hi
           /\ <<lo, hi>> # spec.year_range
           /\ Script([spec EXCEPT !.year_range = <<lo, hi>>])
    /\ touched' = TRUE
    /\ UNCHANGED first_view

\* st.checkbox("Show list of transactions"): the script runs again with the
\* same sidebar values; the box only decides whether filtered_data is printed
ToggleShowTransactions ==
    /\ rendered
    /\ Script(spec)
    /\ UNCHANGED <<first_view, touched>>

----------------------------------------------------------------------------
(* Datasets *)

BaseRow ==
    Row("Spent", "Australia", "Fiji", "Health", "Grant", <<2008, 6, 30>>, "Roads", 4)

\* rows that differ from BaseRow in what one filter looks at; two of them
\* are reversals (a negative value)
FilterRows ==
    { BaseRow,
      [BaseRow EXCEPT ![TYPE] = "Committed"],
      [BaseRow EXCEPT ![DONOR] = "China", ![VALUE] = -3],
      [BaseRow EXCEPT ![RECIPIENT] = "Samoa"],
      [BaseRow EXCEPT ![SECTOR] = "Education"],
      [BaseRow EXCEPT ![FLOW] = "Loan"],
      [BaseRow EXCEPT ![DATE] = << >>],
      [BaseRow EXCEPT ![DATE] = <<2021, 1, 15>>, ![VALUE] = -3] }

\* rows that differ from BaseRow in what one grouping looks at
AggRows ==
    { BaseRow,
      [BaseRow EXCEPT ![DONOR] = "China"],
      [BaseRow EXCEPT ![RECIPIENT] = "Samoa"],
      [BaseRow EXCEPT ![SECTOR] = "Education"],
      [BaseRow EXCEPT ![FLOW] = "Loan"],
      [BaseRow EXCEPT ![DATE] = <<2021, 1, 15>>],
      [BaseRow EXCEPT ![TITLE] = "Ports"],
      [BaseRow EXCEPT ![TITLE] = NaN],
      [BaseRow EXCEPT ![VALUE] = 3],
      [BaseRow EXCEPT ![VALUE] = -3] }

Tables(rows, n) == UNION {[1..k -> rows] : k \in 0..n}

InitWith(tables, geojsons) ==
    /\ csv \in tables
    /\ countries_geojson \in geojsons
    /\ cache = << >>
    /\ reads = 0
    /\ rendered = FALSE
    /\ spec = DefaultSpec
    /\ filtered_data = << >>
    /\ grouped_year_flow = << >>
    /\ pivot_year_flow = << >>
    /\ grouped_sector = << >>
    /\ grouped_year_sector = << >>
    /\ pivot_year_sector = << >>
    /\ grouped_donor = << >>
    /\ donor_df = << >>
    /\ grouped_recipient = << >>
    /\ recipient_df = << >>
    /\ choropleth = << >>
    /\ project_df = << >>
    /\ first_view = << >>
    /\ touched = FALSE

Init == InitWith(Tables(FilterRows, MaxRows), {{"Fiji"}})

Next ==
    \/ FirstRun
    \/ SetTransactionType
    \/ SelectDonors
    \/ SelectRecipients
    \/ SelectSectors
    \/ SelectAidTypes
    \/ SetYearRange
    \/ ToggleShowTransactions

Spec == Init /\ [][Next]_vars

InitAgg == InitWith(Tables(AggRows, MaxAggRows), {{"Fiji"}, {"Fiji", "Samoa"}})

\* the user leaves the multiselects empty
NextAgg ==
    \/ FirstRun
    \/ SetTransactionType
    \/ SetYearRange
    \/ ToggleShowTransactions

SpecAgg == InitAgg /\ [][NextAgg]_vars

----------------------------------------------------------------------------
(* Properties: the filters and the memo (specification Spec) *)

\* the normalized table of the dataset
Table == Normalize(csv)

InView(r) == \E j \in DOMAIN filtered_data : filtered_data[j] = r

\* what the filter specification asks of one row
Passes(r, s) ==
    /\ r[TYPE] = s.transaction_type
    /\ s.donors = {} \/ r[DONOR] \in s.donors
    /\ s.recipients = {} \/ r[RECIPIENT] \in s.recipients
    /\ s.sectors = {} \/ r[SECTOR] \in s.sectors
    /\ s.aid_types = {} \/ r[FLOW] \in s.aid_types
    /\ r[DATE] # NaT
    /\ s.year_range[1] <= r[DATE][1]
    /\ r[DATE][1] <= s.year_range[2]

\* C1: a row of the table is in the filtered view if and only if its
\* transaction type is the selected one, each of the four selections is empty
\* or holds the row's value, and the year of its final transaction date lies in
\* the inclusive year range; only rows of the table are in the view, and a row
\* with no final transaction date never is.
C1_FilterMembership ==
    rendered =>
        /\ \A i \in DOMAIN Table : InView(Table[i]) <=> Passes(Table[i], spec)
        /\ \A j \in DOMAIN filtered_data :
              /\ \E i \in DOMAIN Table : Table[i] = filtered_data[j]
              /\ filtered_data[j][DATE] # NaT

\* C1's case: a selection and a narrowed year range are active, one row is
\* kept, one row is left out, and the table holds an undated row.
C1_Witness ==
    /\ rendered
    /\ spec.donors # {}
    /\ spec.year_range # <<SliderMin, SliderMax>>
    /\ filtered_data # << >>
    /\ Len(filtered_data) < Len(Table)
    /\ \E i \in DOMAIN Table : Table[i][DATE] = NaT

AllEmpty(s) ==
    s.donors = {} /\ s.recipients = {} /\ s.sectors = {} /\ s.aid_types = {}

ObservedYears == {Table[i][DATE][1] : i \in {k \in DOMAIN Table : Table[k][DATE] # NaT}}

\* the year range is the span from the first to the last year of the dataset
FullSpan(s) ==
    /\ ObservedYears # {}
    /\ \A y \in ObservedYears : s.year_range[1] <= y /\ y <= s.year_range[2]
    /\ s.year_range[1] \in ObservedYears
    /\ s.year_range[2] \in ObservedYears

\* C2 as stated: with the four selections empty and the year range the full
\* observed span, the view is exactly the rows of the selected transaction type.
C2_AsStated ==
    (rendered /\ AllEmpty(spec) /\ FullSpan(spec)) =>
        filtered_data = SelectSeq(Table, LAMBDA r : r[TYPE] = spec.transaction_type)

\* C2 amended: with the four selections empty and the year range the full
\* observed span, the view is exactly the rows of the selected transaction type
\* that have a final transaction date.
C2_DatedRowsOfType ==
    (rendered /\ AllEmpty(spec) /\ FullSpan(spec)) =>
        filtered_data = SelectSeq(Table, LAMBDA r : r[TYPE] = spec.transaction_type
                                                    /\ r[DATE] # NaT)

\* C2's case: nothing selected, the year range narrowed to the full observed
\* span, a dated row of the selected type kept and an undated one left out.
C2_Witness ==
    /\ rendered
    /\ AllEmpty(spec)
    /\ FullSpan(spec)
    /\ spec.year_range # <<SliderMin, SliderMax>>
    /\ filtered_data # << >>
    /\ \E i \in DOMAIN Table :
          Table[i][TYPE] = spec.transaction_type /\ Table[i][DATE] = NaT

Total(df) == SumValues(df)

NarrowerSet(a, b) == a # {} /\ b # {} /\ b \subseteq a /\ b # a

NarrowerRange(a, b) == a[1] <= b[1] /\ b[2] <= a[2] /\ a # b

\* t differs from s in one field only and is narrower there
Narrower(s, t) ==
    \/ t = [s EXCEPT !.donors = t.donors] /\ NarrowerSet(s.donors, t.donors)
    \/ t = [s EXCEPT !.recipients = t.recipients]
       /\ NarrowerSet(s.recipients, t.recipients)
    \/ t = [s EXCEPT !.sectors = t.sectors] /\ NarrowerSet(s.sectors, t.sectors)
    \/ t = [s EXCEPT !.aid_types = t.aid_types]
       /\ NarrowerSet(s.aid_types, t.aid_types)
    \/ t = [s EXCEPT !.year_range = t.year_range]
       /\ NarrowerRange(s.year_range, t.year_range)

\* C4 as stated: narrowing one field never increases the total of the view.
C4_AsStated ==
    [][(rendered /\ Narrower(spec, spec')) =>
          Total(filtered_data') <= Total(filtered_data)]_vars

NoReversal(df) == \A i \in DOMAIN df : df[i][VALUE] >= 0

\* C4 amended: narrowing one field leaves exactly the rows of the first view
\* that pass the narrower specification, in the same order, and the total is
\* never greater when no row of the first view has a negative value.
C4_NarrowingKeepsSubview ==
    [][(rendered /\ Narrower(spec, spec')) =>
          /\ filtered_data' = SelectSeq(filtered_data, LAMBDA r : Passes(r, spec'))
          /\ NoReversal(filtered_data) =>
                Total(filtered_data') <= Total(filtered_data)]_vars

\* C4's case: the view now shown comes out of a narrowing that removed a row:
\* a wider selection of recipients, or the full year range, shows more rows,
\* none of them a reversal, with a greater total.
C4_Witness ==
    /\ rendered
    /\ \E wide \in {[spec EXCEPT !.recipients = Unique(Table, RECIPIENT)],
                    [spec EXCEPT !.year_range = <<SliderMin, SliderMax>>]} :
          /\ Narrower(wide, spec)
          /\ NoReversal(Filtering(Table, wide))
          /\ filtered_data # << >>
          /\ Total(filtered_data) < Total(Filtering(Table, wide))

\* C6: the dataset is read and normalized exactly once: not before the first
\* run, once by the first run, and never again by a later run, whatever the
\* sidebar holds; the memo keeps the one table under the one argument.
C6_LoadedOnce ==
    /\ ~rendered => (reads = 0 /\ cache = << >>)
    /\ rendered => (reads = 1 /\ DOMAIN cache = {NoArg})

\* C6's case: runs with other sidebar values have followed the first run.
C6_Witness ==
    /\ rendered
    /\ touched
    /\ spec.donors # {}
    /\ spec.transaction_type = "Committed"
    /\ reads = 1

\* C10: the loaded table stays the normalized dataset; the view is the rows of
\* the table that pass the current specification, in the table's order,
\* whatever was applied before; the default specification applied again gives
\* the view of the first run.
C10_ViewOfTableAndSpec ==
    rendered =>
        /\ cache[NoArg] = Table
        /\ filtered_data = SelectSeq(Table, LAMBDA r : Passes(r, spec))
        /\ spec = DefaultSpec => filtered_data = first_view

\* C10's case: the sidebar is back at its first values after changes, and the
\* view holds two different rows, so their order shows.
C10_Witness ==
    /\ rendered
    /\ touched
    /\ spec = DefaultSpec
    /\ Len(filtered_data) = 2
    /\ filtered_data[1] # filtered_data[2]
    /\ filtered_data = first_view

----------------------------------------------------------------------------
(* Properties: the derived tables (specification SpecAgg) *)

RECURSIVE SumOver(_, _)
SumOver(f, keys) ==
    IF keys = {} THEN 0
    ELSE LET k == CHOOSE x \in keys : TRUE
         IN  f[k] + SumOver(f, keys \ {k})

\* the sum of the values of all rows of a grouped table
SeriesTotal(f) == SumOver(f, DOMAIN f)

YearsOf(df) == {df[i][DATE][1] : i \in {k \in DOMAIN df : df[k][DATE] # NaT}}

CellRows(df, y, col, c) ==
    SelectSeq(df, LAMBDA r : r[DATE] # NaT /\ r[DATE][1] = y /\ r[col] = c)

ZeroFilled(pivot, col) ==
    LET years == YearsOf(filtered_data)
        cats  == Unique(filtered_data, col)
    IN  /\ DOMAIN pivot = years \X cats
        /\ Cardinality(DOMAIN pivot) = Cardinality(years) * Cardinality(cats)
        /\ \A y \in years, c \in cats :
              /\ pivot[<<y, c>>] = Total(CellRows(filtered_data, y, col, c))
              /\ CellRows(filtered_data, y, col, c) = << >> => pivot[<<y, c>>] = 0

\* C5: the stacked year x flow-type series and the stacked year x sector
\* series each hold one entry for every pair of an observed year and an
\* observed category, |years| x |categories| in all; the entry of an observed
\* pair is the sum of its rows' values, the entry of any other pair is 0.
C5_ZeroFill ==
    rendered =>
        /\ ZeroFilled(pivot_year_flow, FLOW)
        /\ ZeroFilled(pivot_year_sector, SECTOR)

\* C5's case: both series hold four entries, one of them for a pair that no
\* row of the view has.
C5_Witness ==
    /\ rendered
    /\ Cardinality(DOMAIN pivot_year_flow) = 4
    /\ Cardinality(DOMAIN pivot_year_sector) = 4
    /\ \E c \in DOMAIN pivot_year_flow : c \notin DOMAIN grouped_year_flow
    /\ \E c \in DOMAIN pivot_year_sector : c \notin DOMAIN grouped_year_sector

FrameKey(row) == <<row["Title"], row["Donor"], row["Recipient"]>>

\* C7 as stated: the transactions of one project (title, donor, recipient)
\* make one rollup row valued at their sum; every transaction of the view is
\* counted in exactly one rollup row; the rows are sorted descending by value.
C7_AsStated ==
    rendered =>
        /\ \A i \in DOMAIN filtered_data :
              Cardinality({j \in DOMAIN project_df :
                  FrameKey(project_df[j]) = ProjectKey(filtered_data[i])}) = 1
        /\ \A j \in DOMAIN project_df :
              2 * project_df[j]["Value"] =
                  Total(SelectSeq(filtered_data,
                                  LAMBDA r : ProjectKey(r) = FrameKey(project_df[j])))
        /\ \A j \in DOMAIN project_df :
              j + 1 \in DOMAIN project_df =>
                  project_df[j]["Value"] >= project_df[j + 1]["Value"]

Keys(frame, name) == {frame[j][name] : j \in DOMAIN frame}

GroupTotal(col, k) == Total(SelectSeq(filtered_data, LAMBDA r : r[col] = k))

\* the place of the first row of the view that carries key k
FirstIndex(col, k) ==
    CHOOSE i \in DOMAIN filtered_data :
        /\ filtered_data[i][col] = k
        /\ \A j \in 1..(i - 1) : filtered_data[j][col] # k

OneRowPerKey(frame, name, col) ==
    /\ Keys(frame, name) = Unique(filtered_data, col)
    /\ Len(frame) = Cardinality(Unique(filtered_data, col))

Descending(frame, name, col) ==
    \A j \in DOMAIN frame :
        j + 1 \in DOMAIN frame =>
            /\ GroupTotal(col, frame[j][name]) >= GroupTotal(col, frame[j + 1][name])
            /\ frame[j]["Value"] >= frame[j + 1]["Value"]

RankedAsStated(frame, name, col) ==
    /\ OneRowPerKey(frame, name, col)
    /\ \A j \in DOMAIN frame : 2 * frame[j]["Value"] = GroupTotal(col, frame[j][name])
    /\ Descending(frame, name, col)
    /\ \A i, j \in DOMAIN frame :
          (i < j /\ GroupTotal(col, frame[i][name]) = GroupTotal(col, frame[j][name]))
              => FirstIndex(col, frame[i][name]) < FirstIndex(col, frame[j][name])

\* C8 as stated: one row per donor (recipient) valued at the group's sum, in
\* descending order of total, equal totals in the order their keys are first met.
C8_AsStated ==
    rendered =>
        /\ RankedAsStated(donor_df, "Donor", DONOR)
        /\ RankedAsStated(recipient_df, "recipient", RECIPIENT)

\* whole is halves / 2 with its fractional part cut off
IsTruncation(whole, halves) ==
    \/ halves >= 0 /\ 2 * whole <= halves /\ halves < 2 * whole + 2
    \/ halves < 0 /\ 2 * whole - 2 < halves /\ halves <= 2 * whole

Ranked(frame, name, col) ==
    /\ OneRowPerKey(frame, name, col)
    /\ \A j \in DOMAIN frame :
          IsTruncation(frame[j]["Value"], GroupTotal(col, frame[j][name]))
    /\ Descending(frame, name, col)

\* C8 amended: one row per distinct donor (recipient) of the view, valued at
\* the sum of the group's rows cut to a whole number toward zero, the rows in
\* descending order of total; nothing is said of the order of equal totals.
C8_RankedTruncated ==
    rendered =>
        /\ Ranked(donor_df, "Donor", DONOR)
        /\ Ranked(recipient_df, "recipient", RECIPIENT)

\* C8's case: two donors with different totals, one of them with a fractional
\* part that the table cuts off, beside two recipients.
C8_Witness ==
    /\ rendered
    /\ Len(donor_df) = 2
    /\ Len(recipient_df) = 2
    /\ GroupTotal(DONOR, donor_df[1]["Donor"]) > GroupTotal(DONOR, donor_df[2]["Donor"])
    /\ \E j \in DOMAIN donor_df :
          2 * donor_df[j]["Value"] # GroupTotal(DONOR, donor_df[j]["Donor"])

\* C9: the map draws exactly the recipients of the view whose name is in the
\* boundary reference, once each and with the value the recipient table gives
\* them; a recipient without a match is only left out of the map, and the
\* recipient table still holds every recipient of the view.
C9_GeoDropOnMiss ==
    rendered =>
        /\ Keys(choropleth, "recipient")
              = Unique(filtered_data, RECIPIENT) \cap countries_geojson
        /\ Len(choropleth) = Cardinality(Keys(choropleth, "recipient"))
        /\ \A j \in DOMAIN choropleth :
              \E i \in DOMAIN recipient_df : recipient_df[i] = choropleth[j]
        /\ Keys(recipient_df, "recipient") = Unique(filtered_data, RECIPIENT)

\* C9's case: the recipient table holds Fiji and Samoa, the reference only
\* Fiji, and the map draws the one point of Fiji.
C9_Witness ==
    /\ rendered
    /\ countries_geojson = {"Fiji"}
    /\ Keys(recipient_df, "recipient") = {"Fiji", "Samoa"}
    /\ Len(choropleth) = 1
    /\ choropleth[1]["recipient"] = "Fiji"
    /\ choropleth[1]["Value"] > 0

====
